---- MODULE Spec2Model ----
(***************************************************************************)
(* The authentication and authorization pipeline of sundrops-api:         *)
(* validateApiKey -> /api/auth routes -> authenticate -> resource routes,  *)
(* over the api_keys and users tables.                                     *)
(*                                                                         *)
(* Every request is a process.  One action is one store operation of the   *)
(* request together with the local computation that follows it up to the   *)
(* next store operation (an `await dbClient...`) or to the response:       *)
(* local computation reads and writes nothing shared, so requests          *)
(* interleave exactly at their store operations.                           *)
(*                                                                         *)
(* Time is counted in hours.  Strings the code inspects (emails,           *)
(* usernames, login identifiers) are tuples of characters; opaque strings  *)
(* (API keys, passwords, tenant ids) are TLA+ strings, "" being the absent *)
(* or empty (falsy) one.                                                   *)
(***************************************************************************)
EXTENDS Integers, Sequences, FiniteSets, TLC

VARIABLES
  now,        \* the clock, in hours
  api_keys,   \* the api_keys table: a sequence of records, id = index
  users,      \* the users table: a sequence of records, id = index
  tokens,     \* the JWTs handed out by login so far (what clients hold)
  stale,      \* history: the JWTs of tokens whose user was suspended or
              \* soft-deleted after they were issued, and still is
  req         \* per process: the request it is handling and its response

vars == <<now, api_keys, users, tokens, stale, req>>

(***************************************************************************)
(* Bounds of the model.                                                    *)
(***************************************************************************)
TickHours == 12   \* the clock advances in steps of this many hours
MaxTime == 24     \* the clock stops here
MaxUsers == 4     \* rows of the users table
MaxTokens == 2    \* JWTs kept by clients

(***************************************************************************)
(* Program constants.                                                      *)
(***************************************************************************)
JWT_EXPIRES_IN == 24        \* hours
VERIFICATION_HOURS == 24    \* hours

Procs == {"p1", "p2"}

Absent == <<>>     \* an absent or empty character string (falsy in JS)
Never == 0 - 1     \* a NULL timestamp
NoId == 0          \* no row

(***************************************************************************)
(* Character strings.                                                      *)
(***************************************************************************)
LowerChar(c) ==
  CASE c = "A" -> "a"
    [] c = "B" -> "b"
    [] c = "J" -> "j"
    [] OTHER -> c

\* String.prototype.toLowerCase / yup's .lowercase() / the folding of ILIKE
Lower(s) == [i \in 1..Len(s) |-> LowerChar(s[i])]

RECURSIVE Like(_, _)
\* PostgreSQL LIKE: "_" matches one character, "%" any run of characters
Like(v, pat) ==
  IF pat = <<>> THEN v = <<>>
  ELSE IF Head(pat) = "%"
       THEN Like(v, Tail(pat)) \/ (v # <<>> /\ Like(Tail(v), pat))
       ELSE /\ v # <<>>
            /\ (Head(pat) = "_" \/ Head(pat) = Head(v))
            /\ Like(Tail(v), Tail(pat))

\* column ILIKE pattern; a NULL column matches nothing
Ilike(v, pat) == v # Absent /\ Like(Lower(v), Lower(pat))

\* equality ignoring case, as the specification words it
EqIgnoreCase(a, b) == Lower(a) = Lower(b)

(***************************************************************************)
(* Rows, tokens, requests.                                                 *)
(***************************************************************************)
ApiKeyRow(id, key, tenant, app, status, expires, deleted) ==
  [id |-> id, key |-> key, tenant_id |-> tenant, application_id |-> app,
   status |-> status, expires_at |-> expires, last_used_at |-> Never,
   deleted_at |-> deleted]

\* bcrypt.hash(password, saltRounds): the digest embeds the salt it drew
Salts == {"s1", "s2"}
BcryptHash(password, salt) == [salt |-> salt, digest |-> <<salt, password>>]
NoHash == [salt |-> "", digest |-> <<"", "">>]

UserFields ==
  {"id", "tenant_id", "application_id", "email", "username", "password_hash",
   "status", "is_verified", "email_verification_token",
   "email_verification_expires", "last_login_at", "deleted_at"}

UserRow(id, tenant, app, email, username, hash, status, verified) ==
  [id |-> id, tenant_id |-> tenant, application_id |-> app, email |-> email,
   username |-> username, password_hash |-> hash, status |-> status,
   is_verified |-> verified, email_verification_token |-> "",
   email_verification_expires |-> Never, last_login_at |-> Never,
   deleted_at |-> Never]

\* a JWT: the payload of generateToken, its expiry, and whether its
\* signature verifies under JWT_SECRET
NoToken ==
  [id |-> NoId, email |-> Absent, username |-> Absent, tenant_id |-> "",
   application_id |-> "", exp |-> Never, sig |-> "none"]

\* the Authorization header "<scheme> <credential>"
NoAuth == [scheme |-> "", key |-> "", token |-> NoToken]
ApiKeyAuth(k) == [scheme |-> "ApiKey", key |-> k, token |-> NoToken]
BearerAuth(t) == [scheme |-> "Bearer", key |-> "", token |-> t]

NoBody ==
  [email |-> Absent, username |-> Absent, password |-> "", status |-> "",
   tenant_id |-> "", application_id |-> "", identifier |-> Absent,
   token |-> "", user_id |-> NoId, current_password |-> "",
   new_password |-> "", password_hash |-> NoHash]

\* the fields of an update; "", Absent and Never stand for "not given"
NoUpd ==
  [email |-> Absent, username |-> Absent, password |-> "", status |-> "",
   last_login_at |-> Never, password_hash |-> NoHash]

NoData == [f \in {} |-> 0]
NoDraft == UserRow(NoId, "", "", Absent, Absent, NoHash, "", FALSE)

Idle ==
  [pc |-> "idle", route |-> "", xkey |-> "", auth |-> NoAuth, qkey |-> "",
   id |-> NoId, body |-> NoBody,
   key |-> "", apiKey |-> NoId, tenant_id |-> "", application_id |-> "",
   passed |-> FALSE,
   user |-> NoToken, upd |-> NoUpd, draft |-> NoDraft,
   touch |-> "none", ran |-> FALSE,
   kind |-> "", msg |-> "", data |-> NoData, token |-> NoToken,
   created |-> NoId]

\* an incoming request: route, headers, query, path parameter, body
Request(route, xkey, auth, qkey, id, body) ==
  [Idle EXCEPT !.route = route, !.xkey = xkey, !.auth = auth, !.qkey = qkey,
               !.id = id, !.body = body]

\* res.status(...).json(...) / next(ApiError...) -> errorHandler
Respond(r, kind, msg) == [r EXCEPT !.pc = "done", !.kind = kind, !.msg = msg]
RespondData(r, kind, msg, data) ==
  [r EXCEPT !.pc = "done", !.kind = kind, !.msg = msg, !.data = data]

\* const { a, b, ...rest } = row
Without(row, fields) == [f \in (DOMAIN row) \ fields |-> row[f]]

(***************************************************************************)
(* The store as deployed: API keys of every kind the middleware tells      *)
(* apart, and two verified users of two tenants (no request can create a   *)
(* verified user, so the first ones are seeded in the store).              *)
(***************************************************************************)
InitApiKeys ==
  << ApiKeyRow(1, "K1", "T1", "A1", "active", Never, Never),
     ApiKeyRow(2, "K2", "T2", "A1", "active", TickHours, Never), \* expires
     ApiKeyRow(3, "K3", "T1", "A1", "inactive", Never, Never),
     ApiKeyRow(4, "K4", "T1", "A1", "active", Never, 0),         \* deleted
     ApiKeyRow(5, "K5", "", "A1", "active", Never, Never) >>     \* no tenant

InitUsers ==
  << UserRow(1, "T1", "A1", <<"a", "@">>, <<"A", "l">>,
             BcryptHash("pw1", "s1"), "active", TRUE),
     UserRow(2, "T2", "A1", <<"b", "@">>, <<"B", "o">>,
             BcryptHash("pw2", "s1"), "active", TRUE) >>

Init ==
  /\ now = 0
  /\ api_keys = InitApiKeys
  /\ users = InitUsers
  /\ tokens = {}
  /\ stale = {}
  /\ req = [p \in Procs |-> Idle]

\* time passes
Tick ==
  /\ now + TickHours <= MaxTime
  /\ now' = now + TickHours
  /\ UNCHANGED <<api_keys, users, tokens, stale, req>>

\* outcomes of one store call: a result, an error result, a thrown exception
DbOutcomes == {"ok", "error", "throw"}

(***************************************************************************)
(* utils/jwt.js                                                            *)
(***************************************************************************)
GenerateToken(user) ==
  [id |-> user.id, email |-> user.email, username |-> user.username,
   tenant_id |-> user.tenant_id, application_id |-> user.application_id,
   exp |-> now + JWT_EXPIRES_IN, sig |-> "valid"]

\* jwt.verify without its test of exp
VerifyTokenIgnoringExpiry(t) == t.sig = "valid"

\* jwt.verify succeeds: the signature verifies and now < exp
VerifyToken(t) == t.sig = "valid" /\ now < t.exp

\* what a client keeps of the tokens it was given
Keep(t) == IF Cardinality(tokens \cup {t}) <= MaxTokens
           THEN tokens \cup {t} ELSE tokens

(***************************************************************************)
(* middleware/apiKey.js: validateApiKey                                    *)
(***************************************************************************)
ExtractApiKey(r) ==
  LET apiKey == IF r.xkey # "" THEN r.xkey ELSE r.qkey
  IN IF r.auth.scheme = "ApiKey" THEN r.auth.key ELSE apiKey

\* the lookup without its .is('deleted_at', null)
ApiKeyByKeyAnyRow(k) == {i \in 1..Len(api_keys) : api_keys[i].key = k}

\* .from('api_keys').select('*').eq('key', k).is('deleted_at', null)
ApiKeyByKey(k) ==
  {i \in 1..Len(api_keys) :
     api_keys[i].key = k /\ api_keys[i].deleted_at = Never}

\* the expiry test left out
ApiKeyNeverExpired(rec) == FALSE

ApiKeyExpired(rec) == rec.expires_at # Never /\ rec.expires_at < now

\* the request after the lookup: rejected, or waiting for the last_used_at write
AfterLookup(rq0, out) ==
  LET k == ExtractApiKey(rq0)
      rq == [rq0 EXCEPT !.key = k]
      rows == ApiKeyByKey(k)
  IN IF k = ""
     THEN Respond(rq, "Unauthorized", "API key is required")
     ELSE IF out = "throw"
     THEN Respond(rq, "Unauthorized", "API key validation failed")
     ELSE IF out = "error" \/ Cardinality(rows) # 1
     THEN Respond(rq, "Unauthorized", "Invalid API key")
     ELSE LET rec == api_keys[CHOOSE i \in rows : TRUE]
          IN IF rec.status # "active"
             THEN Respond(rq, "Unauthorized", "API key is not active")
             ELSE IF ApiKeyExpired(rec)
             THEN Respond(rq, "Unauthorized", "API key has expired")
             ELSE [rq EXCEPT !.pc = "touch", !.apiKey = rec.id,
                             !.tenant_id = IF rec.tenant_id # ""
                                           THEN rec.tenant_id ELSE @]

\* a request arrives and validateApiKey looks its key up
ValidateApiKey(p, rq, out) ==
  /\ req[p].pc \in {"idle", "done"}
  /\ req' = [req EXCEPT ![p] = AfterLookup(rq, out)]
  /\ UNCHANGED <<now, api_keys, users, tokens, stale>>

(***************************************************************************)
(* What runs, without touching the store, once validateApiKey calls        *)
(* next(): the body validation of the route, authenticate for the routes   *)
(* behind it, and the handler up to its first store call.                  *)
(***************************************************************************)
\* validateAuth / validateUser / validateUserUpdate on a well-formed body:
\* yup's transforms (.lowercase() on email)
Validated(body) == [body EXCEPT !.email = Lower(@)]

\* crypto.randomBytes(32).toString('hex'): a value not seen before
VTokens == {"vt1", "vt2", "vt3"}
FreshVTokens ==
  VTokens \ ({users[i].email_verification_token : i \in 1..Len(users)}
             \cup {req[q].draft.email_verification_token : q \in Procs})

\* UsersService.create, up to its first store call
UsersCreateBegin(r) ==
  IF r.body.password = ""
  THEN Respond(r, "BadRequest", "Password is required")
  ELSE [r EXCEPT !.pc = IF r.draft.email # Absent THEN "create_email"
                        ELSE IF r.draft.username # Absent THEN "create_username"
                        ELSE "create_insert"]

\* UsersService.update, up to its first store call
UsersUpdateBegin(r) ==
  [r EXCEPT !.pc = IF r.upd.email # Absent THEN "upd_email"
                   ELSE IF r.upd.username # Absent THEN "upd_username"
                   ELSE "upd_get"]

\* router.post('/register')
Register(r0, vt) ==
  LET r == [r0 EXCEPT !.body = Validated(@), !.ran = TRUE]
  IN IF r.tenant_id = ""
     THEN Respond(r, "BadRequest", "API key must be associated with a tenant")
     ELSE IF r.application_id = ""
     THEN Respond(r, "BadRequest",
                  "API key must be associated with an application")
     ELSE UsersCreateBegin(
            [r EXCEPT !.draft =
               [NoDraft EXCEPT !.tenant_id = r.tenant_id,
                               !.application_id = r.application_id,
                               !.email = r.body.email,
                               !.username = r.body.username,
                               !.status = r.body.status,
                               !.is_verified = FALSE,
                               !.email_verification_token = vt,
                               !.email_verification_expires =
                                  now + VERIFICATION_HOURS]])

\* router.post('/login'), up to findByEmailOrUsernameAndTenant
Login(r0) ==
  LET r == [r0 EXCEPT !.ran = TRUE]
  IN IF r.tenant_id = ""
     THEN Respond(r, "BadRequest", "API key must be associated with a tenant")
     ELSE [r EXCEPT !.pc = "login_find"]

\* router.get('/me'), up to getById
Me(r0) ==
  LET r == [r0 EXCEPT !.ran = TRUE]
  IN IF r.auth.scheme # "Bearer"
     THEN Respond(r, "Unauthorized",
                  "Authorization header with Bearer token is required")
     ELSE IF ~VerifyToken(r.auth.token)
     THEN Respond(r, "Unauthorized", "Invalid or expired token")
     ELSE [r EXCEPT !.pc = "me_get", !.id = r.auth.token.id]

\* router.post('/verify-email'), up to findByVerificationToken
VerifyEmail(r0) ==
  LET r == [r0 EXCEPT !.ran = TRUE]
  IN IF r.body.token = ""
     THEN Respond(r, "BadRequest", "Verification token is required")
     ELSE [r EXCEPT !.pc = "verify_find"]

\* router.get('/verification-token/:email'), up to
\* getVerificationTokenByEmail; body.email holds the :email path parameter
VerificationToken(r0) ==
  LET r == [r0 EXCEPT !.ran = TRUE]
  IN IF r.tenant_id = ""
     THEN Respond(r, "BadRequest", "API key must be associated with a tenant")
     ELSE IF r.body.email = Absent
     THEN Respond(r, "BadRequest", "Email is required")
     ELSE [r EXCEPT !.pc = "token_find"]

\* router.post('/change-password'), up to getById
ChangePassword(r0) ==
  LET r == [r0 EXCEPT !.ran = TRUE]
  IN IF r.tenant_id = ""
     THEN Respond(r, "BadRequest", "API key must be associated with a tenant")
     ELSE [r EXCEPT !.pc = "pw_get", !.id = r.body.user_id]

\* the middleware telling an expired token from an invalid one
AuthenticateTellsExpiry(r) ==
  IF r.auth.scheme # "Bearer"
  THEN Respond(r, "Unauthorized",
               "Authorization header with Bearer token is required")
  ELSE IF r.auth.token.sig # "valid"
  THEN Respond(r, "Unauthorized", "Invalid or expired token")
  ELSE IF ~VerifyToken(r.auth.token)
  THEN Respond(r, "Unauthorized", "Token expired")
  ELSE [r EXCEPT !.user = r.auth.token]

\* the middleware letting a request without a Bearer header through
AuthenticateOptional(r) ==
  IF r.auth.scheme # "Bearer"
  THEN r
  ELSE IF ~VerifyToken(r.auth.token)
  THEN Respond(r, "Unauthorized", "Invalid or expired token")
  ELSE [r EXCEPT !.user = r.auth.token]

\* middleware/authenticate.js
Authenticate(r) ==
  IF r.auth.scheme # "Bearer"
  THEN Respond(r, "Unauthorized",
               "Authorization header with Bearer token is required")
  ELSE IF ~VerifyToken(r.auth.token)
  THEN Respond(r, "Unauthorized", "Invalid or expired token")
  ELSE [r EXCEPT !.user = r.auth.token]

\* the handlers of routes/users.js, up to their first store call, and the
\* handlers of the other resource routers (applications, tenants, api-keys,
\* roles, user-roles), whose work is not modelled
Protected(r0) ==
  LET r == [r0 EXCEPT !.ran = TRUE]
  IN CASE r.route = "users_get" -> [r EXCEPT !.pc = "users_get"]
       [] r.route = "users_post" ->
            LET b == Validated(r.body)
            IN UsersCreateBegin(
                 [r EXCEPT !.body = b,
                           !.draft =
                             [NoDraft EXCEPT !.tenant_id = b.tenant_id,
                                             !.application_id = b.application_id,
                                             !.email = b.email,
                                             !.username = b.username,
                                             !.status = b.status]])
       [] r.route = "users_patch" ->
            LET b == Validated(r.body)
            IN IF b.email = Absent /\ b.username = Absent
                  /\ b.password = "" /\ b.status = ""
                  /\ b.password_hash = NoHash
               THEN Respond(r, "BadRequest", "Update data is required")
               ELSE UsersUpdateBegin(
                      [r EXCEPT !.body = b,
                                !.upd = [NoUpd EXCEPT !.email = b.email,
                                                      !.username = b.username,
                                                      !.password = b.password,
                                                      !.status = b.status,
                                                      !.password_hash =
                                                        b.password_hash]])
       [] r.route = "users_delete" -> [r EXCEPT !.pc = "del_get"]
       [] r.route = "users_restore" -> [r EXCEPT !.pc = "restore"]
       [] OTHER -> Respond(r, "OK", "resource handler")

\* index.js: the order of app.use after validateApiKey
Dispatch(r, vt) ==
  CASE r.route = "register" -> Register(r, vt)
    [] r.route = "login" -> Login(r)
    [] r.route = "me" -> Me(r)
    [] r.route = "verify_email" -> VerifyEmail(r)
    [] r.route = "change_password" -> ChangePassword(r)
    [] r.route = "verification_token" -> VerificationToken(r)
    [] OTHER -> LET a == Authenticate(r)
                IN IF a.pc = "done" THEN a ELSE Protected(a)

\* validateApiKey, from the last_used_at write on
AfterTouch(r, out, vt) ==
  IF out = "throw"
  THEN Respond([r EXCEPT !.touch = out], "Unauthorized",
               "API key validation failed")
  ELSE Dispatch([r EXCEPT !.touch = out, !.passed = TRUE], vt)

ValidateApiKeyTouch(p, out) ==
  /\ req[p].pc = "touch"
  /\ api_keys' = IF out = "ok"
                 THEN [api_keys EXCEPT ![req[p].apiKey].last_used_at = now]
                 ELSE api_keys
  /\ \E vt \in FreshVTokens :
       req' = [req EXCEPT ![p] = AfterTouch(req[p], out, vt)]
  /\ UNCHANGED <<now, users, tokens, stale>>

(***************************************************************************)
(* services/base.js and services/users.js: the store calls on users.       *)
(***************************************************************************)
\* outcomes of a store call of a service: both an error result and a
\* thrown exception become ApiError.internal
UserDbOutcomes == {"ok", "error"}

Rows == 1..Len(users)

\* .eq('id', id): BaseService.getById has no deleted_at filter
RowsById(id) == {i \in Rows : users[i].id = id}

\* the UNIQUE constraints of the users table (email, username), which
\* compare exactly and over every row, soft-deleted ones included
UniqueViolation(row) ==
  \E i \in Rows :
    /\ users[i].id # row.id
    /\ \/ row.email # Absent /\ users[i].email = row.email
       \/ row.username # Absent /\ users[i].username = row.username

\* bcrypt.compare
VerifyPassword(password, hash) == BcryptHash(password, hash.salt) = hash

\* BaseService.getById as used by GET /auth/me and GET /api/users/:id
GetByIdResult(r, out, strip) ==
  IF out # "ok" THEN Respond(r, "Internal", "Failed to fetch users record")
  ELSE IF RowsById(r.id) = {}
  THEN Respond(r, "NotFound", "users record not found")
  ELSE RespondData(r, "OK", "user", Without(users[r.id], strip))

MeGetById(p, out) ==
  /\ req[p].pc = "me_get"
  /\ req' = [req EXCEPT ![p] = GetByIdResult(req[p], out, {"password_hash"})]
  /\ UNCHANGED <<now, api_keys, users, tokens, stale>>

UsersGetById(p, out) ==
  /\ req[p].pc = "users_get"
  /\ req' = [req EXCEPT ![p] = GetByIdResult(req[p], out, {})]
  /\ UNCHANGED <<now, api_keys, users, tokens, stale>>

\* the query without .eq('tenant_id', tenantId)
FindByEmailOrUsernameAnyTenant(identifier, tenantId) ==
  IF identifier = Absent \/ tenantId = "" THEN {}
  ELSE {i \in Rows :
          /\ users[i].deleted_at = Never
          /\ \/ Ilike(users[i].email, Lower(identifier))
             \/ Ilike(users[i].username, Lower(identifier))}

\* UsersService.findByEmailOrUsernameAndTenant: the rows of the query
FindByEmailOrUsernameAndTenant(identifier, tenantId) ==
  IF identifier = Absent \/ tenantId = "" THEN {}
  ELSE {i \in Rows :
          /\ users[i].tenant_id = tenantId
          /\ users[i].deleted_at = Never
          /\ \/ Ilike(users[i].email, Lower(identifier))
             \/ Ilike(users[i].username, Lower(identifier))}

\* the route without its is_verified test
AfterLoginFindUnverified(r, out, i) ==
  IF out # "ok" THEN Respond(r, "Internal", "Failed to find user")
  ELSE IF i = NoId
  THEN Respond(r, "Unauthorized", "Invalid email/username, password, or tenant")
  ELSE IF ~VerifyPassword(r.body.password, users[i].password_hash)
  THEN Respond(r, "Unauthorized", "Invalid email/username, password, or tenant")
  ELSE UsersUpdateBegin(
         [r EXCEPT !.draft = users[i], !.id = users[i].id,
                   !.upd = [NoUpd EXCEPT !.last_login_at = now]])

\* the route with its is_verified test ahead of the password test
AfterLoginFindVerifiedFirst(r, out, i) ==
  IF out # "ok" THEN Respond(r, "Internal", "Failed to find user")
  ELSE IF i = NoId
  THEN Respond(r, "Unauthorized", "Invalid email/username, password, or tenant")
  ELSE IF ~users[i].is_verified
  THEN Respond(r, "Forbidden", "Email address has not been verified")
  ELSE IF ~VerifyPassword(r.body.password, users[i].password_hash)
  THEN Respond(r, "Unauthorized", "Invalid email/username, password, or tenant")
  ELSE UsersUpdateBegin(
         [r EXCEPT !.draft = users[i], !.id = users[i].id,
                   !.upd = [NoUpd EXCEPT !.last_login_at = now]])

\* router.post('/login') from the user lookup to updateLastLogin;
\* i is the row .limit(1) returned, NoId if none
AfterLoginFind(r, out, i) ==
  IF out # "ok" THEN Respond(r, "Internal", "Failed to find user")
  ELSE IF i = NoId
  THEN Respond(r, "Unauthorized", "Invalid email/username, password, or tenant")
  ELSE IF ~VerifyPassword(r.body.password, users[i].password_hash)
  THEN Respond(r, "Unauthorized", "Invalid email/username, password, or tenant")
  ELSE IF ~users[i].is_verified
  THEN Respond(r, "Forbidden", "Email address has not been verified")
  ELSE UsersUpdateBegin(
         [r EXCEPT !.draft = users[i], !.id = users[i].id,
                   !.upd = [NoUpd EXCEPT !.last_login_at = now]])

LoginFind(p, out) ==
  /\ req[p].pc = "login_find"
  /\ LET rows == FindByEmailOrUsernameAndTenant(req[p].body.identifier,
                                                req[p].tenant_id)
     IN \E i \in (IF rows = {} THEN {NoId} ELSE rows) :
          req' = [req EXCEPT ![p] = AfterLoginFind(req[p], out, i)]
  /\ UNCHANGED <<now, api_keys, users, tokens, stale>>

\* the uniqueness pre-checks of UsersService.create (self = NoId) and
\* UsersService.update (self = the row updated)
EmailTaken(email, self) ==
  \E i \in Rows : /\ Ilike(users[i].email, email)
                  /\ users[i].deleted_at = Never
                  /\ users[i].id # self

UsernameTaken(username, self) ==
  \E i \in Rows : /\ Ilike(users[i].username, username)
                  /\ users[i].deleted_at = Never
                  /\ users[i].id # self

AfterEmailCheck(r, out, email, username, self, nextPc, lastPc) ==
  IF out # "ok"
  THEN Respond(r, "Internal", "Failed to check email uniqueness")
  ELSE IF EmailTaken(email, self)
  THEN Respond(r, "BadRequest", "Email already exists")
  ELSE [r EXCEPT !.pc = IF username # Absent THEN nextPc ELSE lastPc]

AfterUsernameCheck(r, out, username, self, lastPc) ==
  IF out # "ok"
  THEN Respond(r, "Internal", "Failed to check username uniqueness")
  ELSE IF UsernameTaken(username, self)
  THEN Respond(r, "BadRequest", "Username already exists")
  ELSE [r EXCEPT !.pc = lastPc]

CreateCheckEmail(p, out) ==
  /\ req[p].pc = "create_email"
  /\ req' = [req EXCEPT ![p] =
               AfterEmailCheck(req[p], out, req[p].draft.email,
                               req[p].draft.username, NoId,
                               "create_username", "create_insert")]
  /\ UNCHANGED <<now, api_keys, users, tokens, stale>>

CreateCheckUsername(p, out) ==
  /\ req[p].pc = "create_username"
  /\ req' = [req EXCEPT ![p] =
               AfterUsernameCheck(req[p], out, req[p].draft.username, NoId,
                                  "create_insert")]
  /\ UNCHANGED <<now, api_keys, users, tokens, stale>>

UpdateCheckEmail(p, out) ==
  /\ req[p].pc = "upd_email"
  /\ req' = [req EXCEPT ![p] =
               AfterEmailCheck(req[p], out, req[p].upd.email,
                               req[p].upd.username, req[p].id,
                               "upd_username", "upd_get")]
  /\ UNCHANGED <<now, api_keys, users, tokens, stale>>

UpdateCheckUsername(p, out) ==
  /\ req[p].pc = "upd_username"
  /\ req' = [req EXCEPT ![p] =
               AfterUsernameCheck(req[p], out, req[p].upd.username, req[p].id,
                                  "upd_get")]
  /\ UNCHANGED <<now, api_keys, users, tokens, stale>>

\* history: the stale tokens once row `old` has become row `new`
Barred(row) == row.status = "suspended" \/ row.deleted_at # Never
StaleAfter(old, new) ==
  IF Barred(new)
  THEN IF Barred(old) THEN stale
       ELSE stale \cup {t \in tokens : t.id = new.id}
  ELSE {t \in stale : t.id # new.id}

\* the row BaseService.create inserts: the draft with its bcrypt hash, the
\* id the store generates and the column defaults
NewRow(r, salt) ==
  [r.draft EXCEPT !.id = Len(users) + 1,
                  !.password_hash = BcryptHash(r.body.password, salt),
                  !.status = IF @ = "" THEN "active" ELSE @]

\* the 201 of router.post('/register') and of POST /api/users
CreateResponse(r, row) ==
  IF r.route = "register"
  THEN RespondData([r EXCEPT !.created = row.id], "Created",
                   "User registered successfully",
                   Without(row, {"password_hash", "email_verification_token"}))
  ELSE RespondData([r EXCEPT !.created = row.id], "Created",
                   "User created successfully", row)

\* BaseService.create: a store error, constraint violations included,
\* becomes ApiError.internal
AfterInsert(r, out, row) ==
  IF out # "ok" \/ UniqueViolation(row)
  THEN Respond(r, "Internal", "Failed to create users record")
  ELSE CreateResponse(r, row)

CreateInsert(p, out, salt) ==
  /\ req[p].pc = "create_insert"
  /\ Len(users) < MaxUsers
  /\ LET row == NewRow(req[p], salt)
     IN /\ users' = IF out # "ok" \/ UniqueViolation(row)
                    THEN users ELSE Append(users, row)
        /\ req' = [req EXCEPT ![p] = AfterInsert(req[p], out, row)]
  /\ UNCHANGED <<now, api_keys, tokens, stale>>

\* BaseService.update: `await this.getById(id)`
AfterUpdateGet(r, out) ==
  IF out # "ok" THEN Respond(r, "Internal", "Failed to fetch users record")
  ELSE IF RowsById(r.id) = {}
  THEN Respond(r, "NotFound", "users record not found")
  ELSE [r EXCEPT !.pc = "upd_write"]

UpdateGet(p, out) ==
  /\ req[p].pc = "upd_get"
  /\ req' = [req EXCEPT ![p] = AfterUpdateGet(req[p], out)]
  /\ UNCHANGED <<now, api_keys, users, tokens, stale>>

\* the update with the new password dropped
UpdatedKeepsHash(row, upd, salt) ==
  [row EXCEPT
     !.email = IF upd.email # Absent THEN upd.email ELSE @,
     !.username = IF upd.username # Absent THEN upd.username ELSE @,
     !.status = IF upd.status # "" THEN upd.status ELSE @,
     !.last_login_at = IF upd.last_login_at # Never
                       THEN upd.last_login_at ELSE @]

\* the row after .update(finalUpdateData).eq('id', id)
Updated(row, upd, salt) ==
  [row EXCEPT
     !.email = IF upd.email # Absent THEN upd.email ELSE @,
     !.username = IF upd.username # Absent THEN upd.username ELSE @,
     !.status = IF upd.status # "" THEN upd.status ELSE @,
     !.password_hash = IF upd.password # ""
                       THEN BcryptHash(upd.password, salt)
                       ELSE IF upd.password_hash # NoHash
                       THEN upd.password_hash ELSE @,
     !.last_login_at = IF upd.last_login_at # Never
                       THEN upd.last_login_at ELSE @]

\* what the route answers once usersService.update returned the row
UpdateResponse(r, row) ==
  IF r.route = "login"
  THEN RespondData([r EXCEPT !.token = GenerateToken(r.draft)], "OK",
                   "Login successful",
                   Without(r.draft, {"password_hash", "deleted_at"}))
  ELSE IF r.route = "change_password"
  THEN RespondData(r, "OK", "Password changed successfully",
                   Without(row, {"password_hash"}))
  ELSE RespondData(r, "OK", "User updated successfully", row)

AfterUpdateWrite(r, out, row) ==
  IF out # "ok" \/ UniqueViolation(row)
  THEN Respond(r, "Internal", "Failed to update users record")
  ELSE UpdateResponse(r, row)

UpdateWrite(p, out, salt) ==
  /\ req[p].pc = "upd_write"
  /\ LET row == Updated(users[req[p].id], req[p].upd, salt)
         r == AfterUpdateWrite(req[p], out, row)
     IN /\ users' = IF r.kind = "OK"
                    THEN [users EXCEPT ![req[p].id] = row] ELSE users
        /\ req' = [req EXCEPT ![p] = r]
        /\ tokens' = IF r.token # NoToken THEN Keep(r.token) ELSE tokens
        /\ stale' = IF r.kind = "OK" THEN StaleAfter(users[req[p].id], row)
                    ELSE stale
  /\ UNCHANGED <<now, api_keys>>

\* BaseService.softDelete: `await this.getById(id)`
AfterSoftDeleteGet(r, out) ==
  IF out # "ok" THEN Respond(r, "Internal", "Failed to fetch users record")
  ELSE IF RowsById(r.id) = {}
  THEN Respond(r, "NotFound", "users record not found")
  ELSE [r EXCEPT !.pc = "del_write"]

SoftDeleteGet(p, out) ==
  /\ req[p].pc = "del_get"
  /\ req' = [req EXCEPT ![p] = AfterSoftDeleteGet(req[p], out)]
  /\ UNCHANGED <<now, api_keys, users, tokens, stale>>

\* the update of softDelete without its .is('deleted_at', null)
SoftDeleteWriteAnyRow(p, out) ==
  /\ req[p].pc = "del_write"
  /\ LET hit == out = "ok"
         row == [users[req[p].id] EXCEPT !.deleted_at = now]
     IN /\ users' = IF hit THEN [users EXCEPT ![req[p].id] = row] ELSE users
        /\ req' = [req EXCEPT ![p] =
                     IF hit
                     THEN RespondData(req[p], "OK",
                                      "User soft deleted successfully", row)
                     ELSE Respond(req[p], "Internal",
                                  "Failed to soft delete users record")]
        /\ stale' = IF hit THEN StaleAfter(users[req[p].id], row) ELSE stale
  /\ UNCHANGED <<now, api_keys, tokens>>

\* BaseService.softDelete: .update({deleted_at}).eq('id', id)
\* .is('deleted_at', null).single(); no row is an error like any other
SoftDeleteWrite(p, out) ==
  /\ req[p].pc = "del_write"
  /\ LET hit == out = "ok" /\ users[req[p].id].deleted_at = Never
         row == [users[req[p].id] EXCEPT !.deleted_at = now]
     IN /\ users' = IF hit THEN [users EXCEPT ![req[p].id] = row] ELSE users
        /\ req' = [req EXCEPT ![p] =
                     IF hit
                     THEN RespondData(req[p], "OK",
                                      "User soft deleted successfully", row)
                     ELSE Respond(req[p], "Internal",
                                  "Failed to soft delete users record")]
        /\ stale' = IF hit THEN StaleAfter(users[req[p].id], row) ELSE stale
  /\ UNCHANGED <<now, api_keys, tokens>>

\* BaseService.restore: .update({deleted_at: null}).eq('id', id)
\* .not('deleted_at', 'is', null).single()
Restore(p, out) ==
  /\ req[p].pc = "restore"
  /\ LET found == RowsById(req[p].id) # {}
                  /\ users[req[p].id].deleted_at # Never
         hit == out = "ok" /\ found
         row == [users[req[p].id] EXCEPT !.deleted_at = Never]
     IN /\ users' = IF hit THEN [users EXCEPT ![req[p].id] = row] ELSE users
        /\ req' = [req EXCEPT ![p] =
                     IF out # "ok"
                     THEN Respond(req[p], "Internal",
                                  "Failed to restore users record")
                     ELSE IF ~found
                     THEN Respond(req[p], "NotFound",
                                  "Soft deleted users record not found")
                     ELSE RespondData(req[p], "OK",
                                      "User restored successfully", row)]
        /\ stale' = IF hit THEN StaleAfter(users[req[p].id], row) ELSE stale
  /\ UNCHANGED <<now, api_keys, tokens>>

(***************************************************************************)
(* Email verification.  UsersService.findByVerificationToken and           *)
(* UsersService.verifyEmail are called by routes/authentication.js but are *)
(* not part of services/users.js as given; they are modelled from the      *)
(* specification of the Email Verification Manager: lookup by exact token  *)
(* match, and on success is_verified = true with the stale token retained  *)
(* (the route's "already verified" guard is what refuses it afterwards).   *)
(***************************************************************************)
FindByVerificationToken(token) ==
  {i \in Rows : users[i].email_verification_token = token}

\* the expiry test with the deadline itself counted as expired
VerificationExpiredAtDeadline(row) ==
  row.email_verification_expires # Never
    /\ row.email_verification_expires <= now

\* user.email_verification_expires &&
\*   new Date(user.email_verification_expires) < new Date()
VerificationExpired(row) ==
  row.email_verification_expires # Never
    /\ row.email_verification_expires < now

\* the route without its "already verified" guard
AfterVerifyFindNoGuard(r, out, i) ==
  IF out # "ok" THEN Respond(r, "Internal", "Failed to find user")
  ELSE IF i = NoId
  THEN Respond(r, "BadRequest", "Invalid verification token")
  ELSE IF VerificationExpired(users[i])
  THEN Respond(r, "Gone", "Verification token has expired")
  ELSE [r EXCEPT !.pc = "verify_write", !.id = users[i].id]

\* router.post('/verify-email') from the user lookup to verifyEmail;
\* i is the row found, NoId if none
AfterVerifyFind(r, out, i) ==
  IF out # "ok" THEN Respond(r, "Internal", "Failed to find user")
  ELSE IF i = NoId
  THEN Respond(r, "BadRequest", "Invalid verification token")
  ELSE IF users[i].is_verified
  THEN Respond(r, "BadRequest", "Email is already verified")
  ELSE IF VerificationExpired(users[i])
  THEN Respond(r, "Gone", "Verification token has expired")
  ELSE [r EXCEPT !.pc = "verify_write", !.id = users[i].id]

VerifyEmailFind(p, out) ==
  /\ req[p].pc = "verify_find"
  /\ LET rows == FindByVerificationToken(req[p].body.token)
     IN \E i \in (IF rows = {} THEN {NoId} ELSE rows) :
          req' = [req EXCEPT ![p] = AfterVerifyFind(req[p], out, i)]
  /\ UNCHANGED <<now, api_keys, users, tokens, stale>>

\* usersService.verifyEmail(user.id) and the route's response
VerifyEmailWrite(p, out) ==
  /\ req[p].pc = "verify_write"
  /\ LET row == [users[req[p].id] EXCEPT !.is_verified = TRUE]
     IN /\ users' = IF out = "ok" THEN [users EXCEPT ![req[p].id] = row]
                    ELSE users
        /\ req' = [req EXCEPT ![p] =
                     IF out # "ok"
                     THEN Respond(req[p], "Internal", "Failed to verify email")
                     ELSE RespondData(req[p], "OK",
                            "Email verified successfully",
                            Without(row, {"password_hash",
                                          "email_verification_token"}))]
  /\ UNCHANGED <<now, api_keys, tokens, stale>>

(***************************************************************************)
(* router.get('/verification-token/:email')                                *)
(***************************************************************************)
\* usersService.getVerificationTokenByEmail(email, tenant_id): the user of
\* the tenant with that email
GetVerificationTokenByEmail(email, tenantId) ==
  {i \in Rows : /\ users[i].tenant_id = tenantId
                /\ users[i].deleted_at = Never
                /\ users[i].email = email}

\* what getVerificationTokenByEmail returns of the row
VerificationData(row) ==
  [id |-> row.id, email |-> row.email, is_verified |-> row.is_verified,
   email_verification_token |-> row.email_verification_token,
   email_verification_expires |-> row.email_verification_expires]

\* the route without its is_verified test
AfterTokenFindNoGuard(r, out, i) ==
  IF out # "ok" THEN Respond(r, "Internal", "Failed to find user")
  ELSE IF i = NoId THEN Respond(r, "NotFound", "User not found")
  ELSE RespondData(r, "OK", "Verification token retrieved successfully",
                   VerificationData(users[i]))

\* the route after getVerificationTokenByEmail
AfterTokenFind(r, out, i) ==
  IF out # "ok" THEN Respond(r, "Internal", "Failed to find user")
  ELSE IF i = NoId THEN Respond(r, "NotFound", "User not found")
  ELSE IF users[i].is_verified
  THEN Respond(r, "BadRequest", "User email is already verified")
  ELSE RespondData(r, "OK", "Verification token retrieved successfully",
                   VerificationData(users[i]))

VerificationTokenFind(p, out) ==
  /\ req[p].pc = "token_find"
  /\ LET rows == GetVerificationTokenByEmail(req[p].body.email,
                                             req[p].tenant_id)
     IN \E i \in (IF rows = {} THEN {NoId} ELSE rows) :
          req' = [req EXCEPT ![p] = AfterTokenFind(req[p], out, i)]
  /\ UNCHANGED <<now, api_keys, users, tokens, stale>>

(***************************************************************************)
(* router.post('/change-password')                                         *)
(***************************************************************************)
\* the route without its current-password test
AfterChangePasswordGetUnchecked(r, out) ==
  IF out # "ok" THEN Respond(r, "Internal", "Failed to fetch users record")
  ELSE IF RowsById(r.id) = {}
  THEN Respond(r, "NotFound", "users record not found")
  ELSE IF users[r.id].tenant_id # r.tenant_id
  THEN Respond(r, "Forbidden",
         "User does not belong to the tenant associated with the API key")
  ELSE UsersUpdateBegin(
         [r EXCEPT !.upd = [NoUpd EXCEPT !.password = r.body.new_password]])

\* from getById to usersService.update(user_id, {password: new_password})
AfterChangePasswordGet(r, out) ==
  IF out # "ok" THEN Respond(r, "Internal", "Failed to fetch users record")
  ELSE IF RowsById(r.id) = {}
  THEN Respond(r, "NotFound", "users record not found")
  ELSE IF users[r.id].tenant_id # r.tenant_id
  THEN Respond(r, "Forbidden",
         "User does not belong to the tenant associated with the API key")
  ELSE IF ~VerifyPassword(r.body.current_password, users[r.id].password_hash)
  THEN Respond(r, "Unauthorized", "Invalid current password")
  ELSE UsersUpdateBegin(
         [r EXCEPT !.upd = [NoUpd EXCEPT !.password = r.body.new_password]])

ChangePasswordGet(p, out) ==
  /\ req[p].pc = "pw_get"
  /\ req' = [req EXCEPT ![p] = AfterChangePasswordGet(req[p], out)]
  /\ UNCHANGED <<now, api_keys, users, tokens, stale>>

(***************************************************************************)
(* Requests clients send.                                                  *)
(***************************************************************************)
\* a string that is no JWT
JunkToken == [NoToken EXCEPT !.sig = "malformed"]

\* a JWT with the claims of user 1, not yet expired, signed with another
\* secret
ForgedToken ==
  [NoToken EXCEPT !.id = 1, !.email = <<"a", "@">>, !.username = <<"A", "l">>,
                  !.tenant_id = "T1", !.application_id = "A1",
                  !.exp = MaxTime + JWT_EXPIRES_IN, !.sig = "forged"]

RegisterBody(email, username) ==
  [NoBody EXCEPT !.email = email, !.username = username, !.password = "pw3"]

LoginBody(identifier, password) ==
  [NoBody EXCEPT !.identifier = identifier, !.password = password]

(***************************************************************************)
(* SpecKey: validateApiKey for every kind of key, carried in one of the    *)
(* three places, while time passes and store calls fail.  Process p1 sends *)
(* any request of KeyRequests; p2 sends one fixed request with a good key, *)
(* so that lookups and last_used_at writes of two requests interleave.     *)
(***************************************************************************)
KeyInputs == {"", "K1", "K2", "K3", "K4", "KX"}

KeyCarriers ==
  {<<k, NoAuth, "">> : k \in KeyInputs}
  \cup {<<"", ApiKeyAuth(k), "">> : k \in KeyInputs}
  \cup {<<"", NoAuth, k>> : k \in KeyInputs}
  \cup {<<k, BearerAuth(JunkToken), "">> : k \in KeyInputs}

KeyRequests(p) ==
  IF p = "p1"
  THEN {Request(route, c[1], c[2], c[3], NoId,
                IF route = "register"
                THEN RegisterBody(<<"J", "@">>, Absent) ELSE NoBody) :
          route \in {"register", "roles"}, c \in KeyCarriers}
  ELSE {Request("register", "K1", NoAuth, "", NoId,
                RegisterBody(<<"J", "@">>, Absent))}

NextKey ==
  \/ Tick
  \/ \E p \in Procs, out \in DbOutcomes :
       \E rq \in KeyRequests(p) : ValidateApiKey(p, rq, out)
  \/ \E p \in Procs, out \in DbOutcomes : ValidateApiKeyTouch(p, out)

SpecKey == Init /\ [][NextKey]_vars

(***************************************************************************)
(* SpecCarrier: one request at a time carrying keys in several places at   *)
(* once.                                                                   *)
(***************************************************************************)
CarrierRequests ==
  {Request("register", x, a, q, NoId, RegisterBody(<<"J", "@">>, Absent)) :
     x \in {"", "K1", "K3"},
     a \in {NoAuth, BearerAuth(JunkToken), ApiKeyAuth(""), ApiKeyAuth("K1"),
            ApiKeyAuth("K3")},
     q \in {"", "K1", "K3"}}

NextCarrier ==
  \/ \E rq \in CarrierRequests : ValidateApiKey("p1", rq, "ok")
  \/ ValidateApiKeyTouch("p1", "ok")

SpecCarrier == Init /\ [][NextCarrier]_vars

(***************************************************************************)
(* Claims about validateApiKey.                                            *)
(***************************************************************************)
\* the request of p was taken past validateApiKey's lookup in this step
KeyAccepted(p) == req[p].pc # "touch" /\ req'[p].pc = "touch"

C3_State ==
  \A p \in Procs :
    /\ (req[p].ran \/ req[p].passed) => req[p].apiKey # NoId
    /\ (req[p].pc = "done" /\ req[p].apiKey = NoId)
         => req[p].kind = "Unauthorized" /\ ~req[p].ran

C3_Step ==
  \A p \in Procs :
    KeyAccepted(p) =>
      /\ req'[p].apiKey \in 1..Len(api_keys)
      /\ LET rec == api_keys[req'[p].apiKey]
         IN /\ rec.key = req'[p].key
            /\ rec.deleted_at = Never
            /\ rec.status = "active"
            /\ (rec.expires_at = Never \/ rec.expires_at >= now)

ClaimedKey(r) ==
  IF r.xkey # "" THEN r.xkey
  ELSE IF r.auth.scheme = "ApiKey" /\ r.auth.key # "" THEN r.auth.key
  ELSE r.qkey

\* C4: the key validateApiKey looks up is the first non-empty one of
\* X-API-Key, Authorization: ApiKey <key>, ?api_key, in this order.
C4_Precedence ==
  \A p \in Procs : req[p].pc # "idle" => req[p].key = ClaimedKey(req[p])

\* no row of api_keys with key k could authorize a request now
NoUsableKey(k) ==
  \A i \in 1..Len(api_keys) :
    api_keys[i].key = k =>
      \/ api_keys[i].deleted_at # Never
      \/ api_keys[i].status # "active"
      \/ (api_keys[i].expires_at # Never /\ api_keys[i].expires_at < now)

C5_Step ==
  \A p \in Procs :
    (req[p].pc \in {"idle", "done"} /\ req'[p].pc # req[p].pc
       /\ req'[p].key # "" /\ NoUsableKey(req'[p].key))
    => /\ req'[p].pc = "done"
       /\ req'[p].kind = "Unauthorized"
       /\ req'[p].tenant_id = ""
       /\ ~req'[p].passed
       /\ api_keys' = api_keys

\* C5: when the key a request carries is unknown, soft-deleted, not active
\* or expired, the lookup step ends the request in Unauthorized, attaches no
\* tenant scope and leaves every api_keys row (last_used_at included) as it
\* was.
C5_Rejections == [][C5_Step]_vars

\* a request was rejected for its expired key
C5_Witness ==
  \E p \in Procs :
    /\ req[p].pc = "done" /\ req[p].key = "K2"
    /\ req[p].kind = "Unauthorized" /\ req[p].tenant_id = ""
    /\ now > api_keys[2].expires_at

\* C6: a request with a valid key whose last_used_at write failed (error
\* result or thrown exception) is passed to the next handler with its
\* tenant scope attached.
C6_BestEffort ==
  \A p \in Procs :
    req[p].touch \in {"error", "throw"}
      => /\ req[p].passed
         /\ req[p].tenant_id = api_keys[req[p].apiKey].tenant_id

(***************************************************************************)
(* SpecSession: user 1 logs in under its tenant's key and uses the token   *)
(* on GET /auth/me and on routes behind authenticate, among them the ones  *)
(* that suspend, reactivate, soft-delete and restore user 1.               *)
(***************************************************************************)
StatusBody(status) == [NoBody EXCEPT !.status = status]

SessionRequests ==
  {Request("login", "K1", NoAuth, "", NoId, LoginBody(<<"a", "@">>, "pw1"))}
  \cup {Request(route, "K1", BearerAuth(t), "", 1, NoBody) :
          route \in {"me", "roles", "users_delete", "users_restore"},
          t \in tokens}
  \cup {Request("users_patch", "K1", BearerAuth(t), "", 1, StatusBody(st)) :
          st \in {"suspended", "active"}, t \in tokens}

NextSession ==
  \/ Tick
  \/ \E rq \in SessionRequests : ValidateApiKey("p1", rq, "ok")
  \/ ValidateApiKeyTouch("p1", "ok")
  \/ \E out \in UserDbOutcomes : LoginFind("p1", out)
  \/ \E out \in UserDbOutcomes : MeGetById("p1", out)
  \/ \E out \in UserDbOutcomes : UpdateGet("p1", out)
  \/ \E out \in UserDbOutcomes, salt \in Salts :
       UpdateWrite("p1", out, salt)
  \/ \E out \in UserDbOutcomes : SoftDeleteGet("p1", out)
  \/ \E out \in UserDbOutcomes : SoftDeleteWrite("p1", out)
  \/ \E out \in UserDbOutcomes : Restore("p1", out)

SpecSession == Init /\ [][NextSession]_vars

(***************************************************************************)
(* Claims about the session.                                               *)
(***************************************************************************)
\* C1: a GET /auth/me that answers 200 with the user's record does not carry
\* a token whose user was suspended or soft-deleted after the token was
\* issued (and still is).
C1_MeRevalidates ==
  [][\A p \in Procs :
       (req[p].pc = "me_get" /\ req'[p].pc = "done" /\ req'[p].kind = "OK")
         => req[p].auth.token \notin stale]_vars

\* the request of p reached the handler of a route behind authenticate
HandlerEntered(p) ==
  /\ ~req[p].ran /\ req'[p].ran
  /\ req'[p].route \notin {"register", "login", "me"}

\* C2: the handler of a route behind authenticate runs only if the user the
\* token's id claim names exists, is active and is verified at that time.
C2_SessionGate ==
  [][\A p \in Procs :
       HandlerEntered(p) =>
         /\ req'[p].user.id \in Rows
         /\ users[req'[p].user.id].status = "active"
         /\ users[req'[p].user.id].is_verified]_vars

(***************************************************************************)
(* SpecUsers: two clients register and, with the token of user 1, create,  *)
(* read, update, soft-delete and restore users whose emails and usernames  *)
(* differ by case only.  Every store call succeeds unless a constraint of  *)
(* the table refuses it.                                                   *)
(***************************************************************************)
UserBody(email, username) ==
  [NoBody EXCEPT !.email = email, !.username = username, !.password = "pw3",
                 !.tenant_id = "T1", !.application_id = "A1"]

NewUserBodies ==
  {UserBody(<<"J", "@">>, <<"J", "o">>), UserBody(<<"j", "@">>, <<"j", "o">>),
   UserBody(<<"k", "@">>, <<"j", "o">>)}

UsersRequests ==
  {Request("login", "K1", NoAuth, "", NoId, LoginBody(<<"a", "@">>, "pw1"))}
  \cup {Request("register", k, NoAuth, "", NoId,
                RegisterBody(e, <<"J", "o">>)) :
          k \in {"K1", "K5"}, e \in {<<"J", "@">>, <<"j", "@">>}}
  \cup {Request("users_post", "K1", BearerAuth(t), "", NoId, b) :
          t \in tokens, b \in NewUserBodies}
  \cup {Request(route, "K1", BearerAuth(t), "", 3, NoBody) :
          route \in {"users_get", "users_delete", "users_restore"},
          t \in tokens}
  \cup {Request("users_patch", "K1", BearerAuth(t), "", 4,
                [NoBody EXCEPT !.email = <<"J", "@">>,
                               !.username = <<"J", "o">>]) : t \in tokens}

NextUsers ==
  \/ \E p \in Procs, rq \in UsersRequests : ValidateApiKey(p, rq, "ok")
  \/ \E p \in Procs : ValidateApiKeyTouch(p, "ok")
  \/ \E p \in Procs : LoginFind(p, "ok")
  \/ \E p \in Procs : UsersGetById(p, "ok")
  \/ \E p \in Procs : CreateCheckEmail(p, "ok")
  \/ \E p \in Procs : CreateCheckUsername(p, "ok")
  \/ \E p \in Procs : CreateInsert(p, "ok", "s1")
  \/ \E p \in Procs : UpdateCheckEmail(p, "ok")
  \/ \E p \in Procs : UpdateCheckUsername(p, "ok")
  \/ \E p \in Procs : UpdateGet(p, "ok")
  \/ \E p \in Procs : UpdateWrite(p, "ok", "s1")
  \/ \E p \in Procs : SoftDeleteGet(p, "ok")
  \/ \E p \in Procs : SoftDeleteWrite(p, "ok")
  \/ \E p \in Procs : Restore(p, "ok")

SpecUsers == Init /\ [][NextUsers]_vars

(***************************************************************************)
(* SpecSequence: the requests of SpecUsers sent by one client, each after  *)
(* the answer to the one before.                                           *)
(***************************************************************************)
NextSequence ==
  \/ \E rq \in UsersRequests : ValidateApiKey("p1", rq, "ok")
  \/ ValidateApiKeyTouch("p1", "ok")
  \/ LoginFind("p1", "ok")
  \/ UsersGetById("p1", "ok")
  \/ CreateCheckEmail("p1", "ok")
  \/ CreateCheckUsername("p1", "ok")
  \/ CreateInsert("p1", "ok", "s1")
  \/ UpdateCheckEmail("p1", "ok")
  \/ UpdateCheckUsername("p1", "ok")
  \/ UpdateGet("p1", "ok")
  \/ UpdateWrite("p1", "ok", "s1")
  \/ SoftDeleteGet("p1", "ok")
  \/ SoftDeleteWrite("p1", "ok")
  \/ Restore("p1", "ok")

SpecSequence == Init /\ [][NextSequence]_vars

(***************************************************************************)
(* Claims about registration and the uniqueness of users.                  *)
(***************************************************************************)
\* the API key record of the request of p has a tenant and an application
KeyBound(p) ==
  /\ api_keys[req[p].apiKey].tenant_id # ""
  /\ api_keys[req[p].apiKey].application_id # ""

\* C7: a register request is not refused at the handler's scope check with
\* BadRequest when the record of its API key has both a tenant and an
\* application.
C7_RegisterScope ==
  [][\A p \in Procs :
       (/\ req[p].pc = "touch" /\ req[p].route = "register"
        /\ req'[p].pc = "done" /\ req'[p].kind = "BadRequest")
         => ~KeyBound(p)]_vars

\* some non-deleted user holds the email, ignoring case
EmailHeld(email) ==
  \E i \in Rows : /\ users[i].deleted_at = Never
                  /\ EqIgnoreCase(users[i].email, email)

\* C8: a register request running on its own under a key with tenant and
\* application is answered Created with one user more when no user holds
\* its email ignoring case, and BadRequest with no user more when one does.
C8_RegisterTwice ==
  [][\A p \in Procs :
       (/\ req[p].route = "register" /\ req[p].pc # "done"
        /\ req'[p].pc = "done" /\ KeyBound(p)
        /\ \A q \in Procs \ {p} : req[q].pc \in {"idle", "done"})
         => IF EmailHeld(req[p].body.email)
            THEN req'[p].kind = "BadRequest" /\ users' = users
            ELSE req'[p].kind = "Created" /\ Len(users') = Len(users) + 1]_vars

\* C9: a create whose uniqueness check passed and whose insert finds the
\* email held by a user another request wrote in between ends in
\* BadRequest and creates no user.
C9_ConcurrentRegister ==
  [][\A p \in Procs :
       (/\ req[p].pc = "create_insert" /\ req'[p].pc = "done"
        /\ EmailHeld(req[p].draft.email))
         => req'[p].kind = "BadRequest" /\ users' = users]_vars

\* C10: no two non-deleted users have emails equal ignoring case, or
\* usernames equal ignoring case.
C10_UniqueIgnoringCase ==
  \A i, j \in Rows :
    (i # j /\ users[i].deleted_at = Never /\ users[j].deleted_at = Never)
      => /\ ~EqIgnoreCase(users[i].email, users[j].email)
         /\ ~EqIgnoreCase(users[i].username, users[j].username)

(***************************************************************************)
(* SpecVerify: besides the two verified users the store holds user 3 as    *)
(* register's userData describes it: not verified, with a verification     *)
(* token that expires 24 hours after its creation, TickHours before the    *)
(* start.  Two clients verify the email and log in while time passes.      *)
(***************************************************************************)
PendingUser ==
  [UserRow(3, "T1", "A1", <<"k", "@">>, <<"k", "i">>,
           BcryptHash("pw3", "s2"), "active", FALSE)
     EXCEPT !.email_verification_token = "vt0",
            !.email_verification_expires = VERIFICATION_HOURS - TickHours]

InitPending ==
  /\ now = 0
  /\ api_keys = InitApiKeys
  /\ users = Append(InitUsers, PendingUser)
  /\ tokens = {}
  /\ stale = {}
  /\ req = [p \in Procs |-> Idle]

VerifyBody(token) == [NoBody EXCEPT !.token = token]

VerifyRequests ==
  {Request("verify_email", "K1", NoAuth, "", NoId, VerifyBody(vt)) :
     vt \in {"", "vt0", "vt9"}}
  \cup {Request("login", "K1", NoAuth, "", NoId, LoginBody(i, pw)) :
          i \in {<<"a", "@">>, <<"k", "@">>, <<"z", "@">>},
          pw \in {"pw3", "bad"}}

NextVerify ==
  \/ Tick
  \/ \E p \in Procs, rq \in VerifyRequests : ValidateApiKey(p, rq, "ok")
  \/ \E p \in Procs : ValidateApiKeyTouch(p, "ok")
  \/ \E p \in Procs : VerifyEmailFind(p, "ok")
  \/ \E p \in Procs, out \in UserDbOutcomes : VerifyEmailWrite(p, out)
  \/ \E p \in Procs : LoginFind(p, "ok")
  \/ \E p \in Procs : UpdateGet(p, "ok")
  \/ \E p \in Procs : UpdateWrite(p, "ok", "s1")

SpecVerify == InitPending /\ [][NextVerify]_vars

(***************************************************************************)
(* SpecGating: the requests of SpecVerify sent by one client, each after   *)
(* the answer to the one before, so that the logins of a user are ordered  *)
(* in time.                                                                *)
(***************************************************************************)
NextGating ==
  \/ Tick
  \/ \E rq \in VerifyRequests : ValidateApiKey("p1", rq, "ok")
  \/ ValidateApiKeyTouch("p1", "ok")
  \/ VerifyEmailFind("p1", "ok")
  \/ \E out \in UserDbOutcomes : VerifyEmailWrite("p1", out)
  \/ LoginFind("p1", "ok")
  \/ UpdateGet("p1", "ok")
  \/ UpdateWrite("p1", "ok", "s1")

SpecGating == InitPending /\ [][NextGating]_vars

(***************************************************************************)
(* Claims about email verification and login.                              *)
(***************************************************************************)
\* the rows whose verification token is the one the request of p presents
Presented(p) ==
  {i \in Rows : users[i].email_verification_token = req[p].body.token}

\* the request of p gets the result of its user lookup in this step
VerifyLooksUp(p) == req[p].pc = "verify_find" /\ req'[p].pc # "verify_find"

C12_Expiry ==
  [][\A p \in Procs :
       VerifyLooksUp(p) =>
         \A i \in Presented(p) :
           ~users[i].is_verified =>
             IF now > users[i].email_verification_expires
             THEN /\ req'[p].pc = "done" /\ req'[p].kind = "Gone"
                  /\ users' = users
             ELSE req'[p].kind # "Gone" /\ req'[p].pc = "verify_write"]_vars

\* the token of user 3 was refused as expired and user 3 is not verified
C12_Witness ==
  \E p \in Procs :
    /\ req[p].route = "verify_email" /\ req[p].body.token = "vt0"
    /\ req[p].pc = "done" /\ req[p].kind = "Gone"
    /\ ~users[3].is_verified
    /\ now > users[3].email_verification_expires

\* the non-deleted users of the tenant of p's API key that p's identifier
\* names, by email or username ignoring case
Named(p) ==
  {i \in Rows : /\ users[i].tenant_id = req[p].tenant_id
                /\ users[i].deleted_at = Never
                /\ \/ EqIgnoreCase(users[i].email, req[p].body.identifier)
                   \/ EqIgnoreCase(users[i].username, req[p].body.identifier)}

PasswordCorrect(p, i) ==
  VerifyPassword(req[p].body.password, users[i].password_hash)

LoginLooksUp(p) == req[p].pc = "login_find" /\ req'[p].pc # "login_find"

C14_NoEnumeration ==
  [][\A p \in Procs :
       (LoginLooksUp(p) /\ \A i \in Named(p) : ~PasswordCorrect(p, i))
         => /\ req'[p].pc = "done" /\ req'[p].kind = "Unauthorized"
            /\ req'[p].msg = "Invalid email/username, password, or tenant"
            /\ req'[p].data = NoData /\ req'[p].token = NoToken]_vars

\* a wrong password was refused for the unverified user 3
C14_Witness ==
  \E p \in Procs :
    /\ req[p].route = "login" /\ req[p].pc = "done"
    /\ req[p].body.identifier = <<"k", "@">> /\ req[p].body.password = "bad"
    /\ req[p].kind = "Unauthorized" /\ ~users[3].is_verified

(***************************************************************************)
(* SpecPassword: two clients log in and change passwords of the users of   *)
(* two tenants, with the API key of either tenant.                         *)
(***************************************************************************)
PasswordBody(id, current, new) ==
  [NoBody EXCEPT !.user_id = id, !.current_password = current,
                 !.new_password = new]

PasswordRequests ==
  {Request("login", k, NoAuth, "", NoId, LoginBody(i, pw)) :
     k \in {"K1", "K2"}, i \in {<<"a", "@">>, <<"b", "@">>},
     pw \in {"pw1", "pw9"}}
  \cup {Request("change_password", k, NoAuth, "", NoId,
                PasswordBody(id, cur, "pw9")) :
          k \in {"K1", "K2"}, id \in {1, 2}, cur \in {"pw1", "pw2"}}

NextPassword ==
  \/ \E p \in Procs, rq \in PasswordRequests : ValidateApiKey(p, rq, "ok")
  \/ \E p \in Procs : ValidateApiKeyTouch(p, "ok")
  \/ \E p \in Procs : LoginFind(p, "ok")
  \/ \E p \in Procs : ChangePasswordGet(p, "ok")
  \/ \E p \in Procs : UpdateGet(p, "ok")
  \/ \E p \in Procs, salt \in Salts : UpdateWrite(p, "ok", salt)

SpecPassword == Init /\ [][NextPassword]_vars

(***************************************************************************)
(* Claims about tenants and passwords.                                     *)
(***************************************************************************)
\* the tenant of the API key record the request of p was accepted with
KeyTenant(p) == api_keys[req[p].apiKey].tenant_id

PasswordLooksUp(p) == req[p].pc = "pw_get" /\ req'[p].pc # "pw_get"

\* the request of p writes, in this step, the new password of its target
PasswordWritten(p) ==
  /\ req[p].route = "change_password" /\ req[p].pc = "upd_write"
  /\ req'[p].pc = "done" /\ req'[p].kind = "OK"

\* C15: a login names no user outside the tenant of its API key: it ends
\* Unauthorized without a token when that tenant has no user of its
\* identifier, and a token it returns is of a user of that tenant; a
\* change-password whose target is of another tenant ends Forbidden, and a
\* password_hash only changes by a request whose API key is of the user's
\* tenant.
C15_TenantIsolation ==
  [][/\ \A p \in Procs :
          /\ (LoginLooksUp(p)
                /\ ~\E i \in Rows :
                      /\ users[i].tenant_id = KeyTenant(p)
                      /\ \/ EqIgnoreCase(users[i].email,
                                         req[p].body.identifier)
                         \/ EqIgnoreCase(users[i].username,
                                         req[p].body.identifier))
               => /\ req'[p].pc = "done" /\ req'[p].kind = "Unauthorized"
                  /\ req'[p].token = NoToken
          /\ (req[p].pc # "done" /\ req'[p].token # NoToken)
               => /\ req'[p].token.id \in Rows
                  /\ users[req'[p].token.id].tenant_id = KeyTenant(p)
                  /\ req'[p].token.tenant_id = KeyTenant(p)
          /\ (PasswordLooksUp(p) /\ req[p].id \in Rows
                /\ users[req[p].id].tenant_id # KeyTenant(p))
               => /\ req'[p].pc = "done" /\ req'[p].kind = "Forbidden"
                  /\ users' = users
     /\ \A i \in Rows :
          users'[i].password_hash # users[i].password_hash
            => \E p \in Procs : /\ PasswordWritten(p) /\ req[p].id = i
                                /\ users[i].tenant_id = KeyTenant(p)]_vars

\* the key of tenant T2 was refused the login of a user of tenant T1 with
\* that user's password, and the change of its password
C15_Witness ==
  /\ req["p1"].route = "login" /\ req["p1"].key = "K2"
  /\ req["p1"].body.identifier = <<"a", "@">>
  /\ req["p1"].body.password = "pw1"
  /\ req["p1"].pc = "done" /\ req["p1"].kind = "Unauthorized"
  /\ req["p2"].route = "change_password" /\ req["p2"].key = "K2"
  /\ req["p2"].id = 1 /\ req["p2"].body.current_password = "pw1"
  /\ req["p2"].pc = "done" /\ req["p2"].kind = "Forbidden"
  /\ users[1].password_hash = BcryptHash("pw1", "s1")

\* the current_password of p's request is not the password of its target
WrongCurrent(p) ==
  /\ req[p].id \in Rows
  /\ ~VerifyPassword(req[p].body.current_password,
                     users[req[p].id].password_hash)

\* C16 as stated: a change-password whose current_password does not match
\* the hash of its target user fails Unauthorized and changes no user.
C16_WrongPassword ==
  [][\A p \in Procs :
       (PasswordLooksUp(p) /\ WrongCurrent(p))
         => /\ req'[p].pc = "done" /\ req'[p].kind = "Unauthorized"
            /\ users' = users]_vars

\* C16 amended: a change-password whose current_password does not match
\* the hash of its target user ends there and changes no user; it fails
\* Unauthorized when the target is of the tenant of the API key, and
\* Forbidden when it is of another tenant.
C16_WrongPasswordByTenant ==
  [][\A p \in Procs :
       (PasswordLooksUp(p) /\ WrongCurrent(p))
         => /\ req'[p].pc = "done" /\ users' = users
            /\ req'[p].kind = IF users[req[p].id].tenant_id = KeyTenant(p)
                              THEN "Unauthorized" ELSE "Forbidden"]_vars

\* a wrong current password was refused under the key of the user's tenant
C16_Witness ==
  \E p \in Procs :
    /\ req[p].route = "change_password" /\ req[p].key = "K1"
    /\ req[p].id = 1 /\ req[p].body.current_password = "pw2"
    /\ req[p].pc = "done" /\ req[p].kind = "Unauthorized"
    /\ req[p].msg = "Invalid current password"

TokenRequests ==
  {Request("login", "K1", NoAuth, "", NoId, LoginBody(<<"a", "@">>, "pw1"))}
  \cup {Request(route, "K1", BearerAuth(t), "", NoId, NoBody) :
          route \in {"me", "roles"},
          t \in tokens \cup {JunkToken, ForgedToken}}

NextToken ==
  \/ Tick
  \/ \E p \in Procs, rq \in TokenRequests : ValidateApiKey(p, rq, "ok")
  \/ \E p \in Procs : ValidateApiKeyTouch(p, "ok")
  \/ \E p \in Procs : LoginFind(p, "ok")
  \/ \E p \in Procs : UpdateGet(p, "ok")
  \/ \E p \in Procs : UpdateWrite(p, "ok", "s1")
  \/ \E p \in Procs, out \in UserDbOutcomes : MeGetById(p, out)

SpecToken == Init /\ [][NextToken]_vars

(***************************************************************************)
(* Claims about responses and tokens.                                      *)
(***************************************************************************)
\* C18: no response carries, in its data, the field password_hash, or the
\* field email_verification_token with a token in it (the field with null
\* in it, as in the login response of a user without a token, is let pass).
C18_Sanitized ==
  \A p \in Procs :
    req[p].pc = "done"
      => /\ "password_hash" \notin DOMAIN req[p].data
         /\ "email_verification_token" \in DOMAIN req[p].data
              => req[p].data.email_verification_token = ""

\* the request of p, bearing a token, is at the step that verifies it
Presents(p) ==
  /\ req[p].pc = "touch" /\ req'[p].pc # "touch"
  /\ req[p].route \in {"me", "roles"}
  /\ req[p].auth.scheme = "Bearer"

\* the login of p is answered with a token
Issued(p) ==
  /\ req[p].route = "login" /\ req[p].pc = "upd_write"
  /\ req'[p].pc = "done" /\ req'[p].kind = "OK"

\* the claims id, email, username, tenant_id and application_id of c are
\* those of the user record u
ClaimsOf(c, u) ==
  /\ c.id = u.id /\ c.email = u.email /\ c.username = u.username
  /\ c.tenant_id = u.tenant_id /\ c.application_id = u.application_id

\* C19: a token issued for a user carries the user's id, email, username,
\* tenant_id and application_id, no password_hash, and expires
\* JWT_EXPIRES_IN hours after it was issued; verified before it expires it
\* yields these claims, and from its expiry on it is refused.
C19_TokenRoundTrip ==
  [][\A p \in Procs :
       /\ Issued(p) =>
            /\ ClaimsOf(req'[p].token, users[req[p].id])
            /\ "password_hash" \notin DOMAIN req'[p].token
            /\ req'[p].token.exp = now + JWT_EXPIRES_IN
       /\ (Presents(p) /\ req[p].auth.token.sig = "valid") =>
            LET t == req[p].auth.token
            IN IF now < t.exp
               THEN /\ ~(req'[p].pc = "done" /\ req'[p].kind = "Unauthorized")
                    /\ req[p].route = "me" => req'[p].id = t.id
                    /\ req[p].route = "roles" =>
                         /\ ClaimsOf(req'[p].user, users[t.id])
                         /\ "password_hash" \notin DOMAIN req'[p].user
               ELSE /\ req'[p].pc = "done"
                    /\ req'[p].kind = "Unauthorized"]_vars

\* a token got the bearer past authenticate with the claims of user 1, and
\* the same token was refused after it had expired
C19_Witness ==
  /\ req["p1"].route = "roles" /\ req["p1"].pc = "done"
  /\ req["p1"].kind = "OK" /\ req["p1"].user.id = 1
  /\ req["p1"].auth.token \in tokens
  /\ req["p2"].route = "me" /\ req["p2"].pc = "done"
  /\ req["p2"].auth = req["p1"].auth
  /\ req["p2"].kind = "Unauthorized"
  /\ now >= req["p2"].auth.token.exp

\* the token is one verifyToken refuses: no JWT, signed with another
\* secret, or expired
Refused(t) == t.sig # "valid" \/ now >= t.exp

\* C20: GET /auth/me and the routes behind authenticate answer a malformed,
\* a forged and an expired token alike: Unauthorized, 'Invalid or expired
\* token', no data, and the handler behind authenticate does not run.
C20_OneTokenError ==
  [][\A p \in Procs :
       (Presents(p) /\ Refused(req[p].auth.token)) =>
         /\ req'[p].pc = "done"
         /\ req'[p].kind = "Unauthorized"
         /\ req'[p].msg = "Invalid or expired token"
         /\ req'[p].data = NoData
         /\ req[p].route = "roles" => ~req'[p].ran]_vars

\* GET /auth/me refused an expired token and authenticate a forged one,
\* with the same answer
C20_Witness ==
  /\ req["p1"].route = "me" /\ req["p1"].pc = "done"
  /\ req["p1"].auth.token.sig = "valid"
  /\ now >= req["p1"].auth.token.exp
  /\ req["p2"].route = "roles" /\ req["p2"].pc = "done"
  /\ req["p2"].auth.token = ForgedToken
  /\ req["p1"].kind = "Unauthorized" /\ req["p2"].kind = req["p1"].kind
  /\ req["p2"].msg = req["p1"].msg

(***************************************************************************)
(* SpecBearer: one client logs in as user 1 and calls routes behind        *)
(* authenticate with no Authorization header, with the ApiKey scheme, and  *)
(* with Bearer tokens, good and bad, while time passes.                    *)
(***************************************************************************)
BearerRequests ==
  {Request("login", "K1", NoAuth, "", NoId, LoginBody(<<"a", "@">>, "pw1"))}
  \cup {Request(route, "K1", a, "", 1, NoBody) :
          route \in {"roles", "users_get"},
          a \in {NoAuth, ApiKeyAuth("K1")}
                \cup {BearerAuth(t) :
                        t \in tokens \cup {JunkToken, ForgedToken}}}

NextBearer ==
  \/ Tick
  \/ \E rq \in BearerRequests : ValidateApiKey("p1", rq, "ok")
  \/ ValidateApiKeyTouch("p1", "ok")
  \/ LoginFind("p1", "ok")
  \/ UpdateGet("p1", "ok")
  \/ UpdateWrite("p1", "ok", "s1")
  \/ \E out \in UserDbOutcomes : UsersGetById("p1", out)

SpecBearer == Init /\ [][NextBearer]_vars

\* the route of the request is mounted behind authenticate
BehindAuthenticate(r) ==
  r.route \notin {"register", "login", "me", "verify_email",
                  "change_password"}

\* the request of p, its key accepted, is at the step that runs authenticate
AtAuthenticate(p) ==
  /\ req[p].pc = "touch" /\ req'[p].pc # "touch"
  /\ BehindAuthenticate(req[p])

\* C21: the handler of a route behind authenticate runs only for a request
\* with a Bearer header whose token verifies; a request with no
\* Authorization header, with another scheme, or with a token that does not
\* verify ends Unauthorized and its handler does not run.
C21_BearerRequired ==
  [][\A p \in Procs :
       AtAuthenticate(p) =>
         IF req[p].auth.scheme = "Bearer" /\ VerifyToken(req[p].auth.token)
         THEN req'[p].ran /\ req'[p].user = req[p].auth.token
         ELSE /\ ~req'[p].ran
              /\ req'[p].pc = "done"
              /\ req'[p].kind = "Unauthorized"]_vars

\* GET /api/users/1 sent with no Authorization header was refused before
\* its handler, after a token had been issued
C21_Witness ==
  /\ req["p1"].route = "users_get" /\ req["p1"].auth = NoAuth
  /\ req["p1"].pc = "done" /\ req["p1"].kind = "Unauthorized"
  /\ req["p1"].passed /\ ~req["p1"].ran
  /\ tokens # {}

(***************************************************************************)
(* The password hasher on passwords spelled out character by character.    *)
(* The other specifications use short passwords, written as strings, that  *)
(* bcrypt reads whole.                                                     *)
(***************************************************************************)
\* yup .min(8) and .max(255) on password
PASSWORD_MIN == 8
PASSWORD_MAX == 255

\* bcrypt reads the first 72 bytes of its input and ignores the rest
BCRYPT_BYTES == 72

MaxSuffix == 2

Bcrypt72(password) ==
  IF Len(password) <= BCRYPT_BYTES
  THEN password
  ELSE SubSeq(password, 1, BCRYPT_BYTES)

\* bcrypt.hash(password, saltRounds), the salt it draws made explicit
Hash(password, salt) == BcryptHash(Bcrypt72(password), salt)

\* bcrypt.compare(password, hash)
Compare(password, hash) == VerifyPassword(Bcrypt72(password), hash)

\* n times the character a
Pad(n) == [i \in 1..n |-> "a"]

Suffixes ==
  UNION {[1..n -> {"a", "b"}] : n \in 0..MaxSuffix}

\* passwords the schemas accept: the shortest ones, and ones around the
\* length bcrypt reads
LongPasswords ==
  {pw \in {Pad(n) \o sfx :
             n \in {PASSWORD_MIN, BCRYPT_BYTES - 1, BCRYPT_BYTES},
             sfx \in Suffixes} :
     Len(pw) >= PASSWORD_MIN /\ Len(pw) <= PASSWORD_MAX}

\* two callers, each holding a password
InitHash ==
  /\ now = 0
  /\ api_keys = InitApiKeys
  /\ users = InitUsers
  /\ tokens = {}
  /\ stale = {}
  /\ req \in [Procs -> {[Idle EXCEPT !.body.password = pw] :
                          pw \in LongPasswords}]

\* p has its password hashed
HashPassword(p, salt) ==
  /\ req[p].pc = "idle"
  /\ req' = [req EXCEPT
               ![p].pc = "hashed",
               ![p].draft.password_hash = Hash(req[p].body.password, salt)]
  /\ UNCHANGED <<now, api_keys, users, tokens, stale>>

\* p has its password compared with the hash made for q
ComparePassword(p, q) ==
  /\ req[p].pc = "hashed"
  /\ req[q].pc \in {"hashed", "done"}
  /\ req' = [req EXCEPT
               ![p] = RespondData(
                        req[p], "OK", q,
                        [match |-> Compare(req[p].body.password,
                                           req[q].draft.password_hash)])]
  /\ UNCHANGED <<now, api_keys, users, tokens, stale>>

NextHash ==
  \/ \E p \in Procs, salt \in Salts : HashPassword(p, salt)
  \/ \E p \in Procs, q \in Procs : ComparePassword(p, q)

SpecHash == InitHash /\ [][NextHash]_vars

\* C22: a password compares true with a hash exactly if the hash was made
\* from that same password, and two hashes of one password made with
\* different salts differ.
C22_HashRoundTrip ==
  /\ \A p \in Procs :
       req[p].pc = "done" =>
         (req[p].data.match
            <=> req[p].body.password = req[req[p].msg].body.password)
  /\ \A p \in Procs, q \in Procs :
       (/\ req[p].pc # "idle" /\ req[q].pc # "idle"
        /\ req[p].body.password = req[q].body.password
        /\ req[p].draft.password_hash.salt # req[q].draft.password_hash.salt)
         => req[p].draft.password_hash # req[q].draft.password_hash

(***************************************************************************)
(* SpecFailure: one client, with a usable key, logs in as user 1 with the  *)
(* right password and creates a user, while time passes; any store call may  *)
(* fail.                                                                   *)
(***************************************************************************)
FailureRequests ==
  {Request("login", "K1", NoAuth, "", NoId, LoginBody(<<"a", "@">>, "pw1"))}
  \cup {Request("users_post", "K1", BearerAuth(t), "", NoId,
                UserBody(<<"k", "@">>, <<"j", "o">>)) : t \in tokens}

NextFailure ==
  \/ Tick
  \/ \E rq \in FailureRequests, out \in DbOutcomes :
       ValidateApiKey("p1", rq, out)
  \/ ValidateApiKeyTouch("p1", "ok")
  \/ \E out \in UserDbOutcomes : LoginFind("p1", out)
  \/ \E out \in UserDbOutcomes : CreateCheckEmail("p1", out)
  \/ \E out \in UserDbOutcomes : CreateCheckUsername("p1", out)
  \/ \E out \in UserDbOutcomes : CreateInsert("p1", out, "s1")
  \/ \E out \in UserDbOutcomes : UpdateGet("p1", out)
  \/ \E out \in UserDbOutcomes : UpdateWrite("p1", out, "s1")

SpecFailure == Init /\ [][NextFailure]_vars

\* the request of p is answered with an Internal error
EndsInternal(p) == req'[p].pc = "done" /\ req'[p].kind = "Internal"

\* C23: a step in which the store fails, be it the API-key lookup, a user
\* lookup, the user insert or the user update, ends the request with an
\* Internal error.
C23_StoreFailure ==
  [][\A p \in Procs :
       /\ \A rq \in FailureRequests, out \in {"error", "throw"} :
            ValidateApiKey(p, rq, out) => EndsInternal(p)
       /\ LoginFind(p, "error") => EndsInternal(p)
       /\ CreateCheckEmail(p, "error") => EndsInternal(p)
       /\ CreateCheckUsername(p, "error") => EndsInternal(p)
       /\ CreateInsert(p, "error", "s1") => EndsInternal(p)
       /\ UpdateGet(p, "error") => EndsInternal(p)
       /\ UpdateWrite(p, "error", "s1") => EndsInternal(p)]_vars

(***************************************************************************)
(* SpecPendingToken: with user 3 registered in tenant T1 and not yet       *)
(* verified, one client asks for verification tokens by email under the    *)
(* keys of both tenants and verifies emails, while time passes.            *)
(***************************************************************************)
EmailBody(email) == [NoBody EXCEPT !.email = email]

PendingTokenRequests ==
  {Request("verification_token", k, NoAuth, "", NoId, EmailBody(e)) :
     k \in {"K1", "K2"},
     e \in {<<"a", "@">>, <<"b", "@">>, <<"k", "@">>, <<"z", "@">>}}
  \cup {Request("verify_email", "K1", NoAuth, "", NoId, VerifyBody("vt0"))}

NextPendingToken ==
  \/ Tick
  \/ \E rq \in PendingTokenRequests : ValidateApiKey("p1", rq, "ok")
  \/ ValidateApiKeyTouch("p1", "ok")
  \/ \E out \in UserDbOutcomes : VerificationTokenFind("p1", out)
  \/ VerifyEmailFind("p1", "ok")
  \/ VerifyEmailWrite("p1", "ok")

SpecPendingToken == InitPending /\ [][NextPendingToken]_vars

\* the request of p for a verification token is answered
TokenLooksUp(p) == req[p].pc = "token_find" /\ req'[p].pc = "done"

\* the users with the email the request of p names
Holders(p) == {i \in Rows : users[i].email = req[p].body.email}

GetsById(p) ==
  /\ req[p].pc \in {"me_get", "users_get", "pw_get"}
  /\ req'[p].pc # req[p].pc

\* C25: getById of the id of a soft-deleted record fails NotFound (or
\* Internal, if the store fails), in GET /auth/me, GET /api/users/:id and
\* change-password.
C25_GetByIdSkipsDeleted ==
  [][\A p \in Procs :
       (/\ GetsById(p)
        /\ \E i \in RowsById(req[p].id) : users[i].deleted_at # Never)
         => /\ req'[p].pc = "done"
            /\ req'[p].kind \in {"NotFound", "Internal"}]_vars

(***************************************************************************)
(* SpecLifecycle: a client logs in as user 1, once, and two clients         *)
(* soft-delete and restore user 2 and a user that does not exist, while    *)
(* time passes.                                                            *)
(***************************************************************************)
LifecycleRequests(p) ==
  (IF p = "p1" /\ tokens = {}
   THEN {Request("login", "K1", NoAuth, "", NoId,
                 LoginBody(<<"a", "@">>, "pw1"))}
   ELSE {})
  \cup {Request(route, "K1", BearerAuth(t), "", id, NoBody) :
          route \in {"users_delete", "users_restore"}, id \in 2..3,
          t \in tokens}

NextLifecycle ==
  \/ Tick
  \/ \E p \in Procs :
       \E rq \in LifecycleRequests(p) : ValidateApiKey(p, rq, "ok")
  \/ \E p \in Procs : ValidateApiKeyTouch(p, "ok")
  \/ \E p \in Procs : LoginFind(p, "ok")
  \/ \E p \in Procs : UpdateGet(p, "ok")
  \/ \E p \in Procs : UpdateWrite(p, "ok", "s1")
  \/ \E p \in Procs : SoftDeleteGet(p, "ok")
  \/ \E p \in Procs, out \in UserDbOutcomes : SoftDeleteWrite(p, out)
  \/ \E p \in Procs, out \in UserDbOutcomes : Restore(p, out)

SpecLifecycle == Init /\ [][NextLifecycle]_vars

\* the record but for the fields soft-delete, restore and login write
Identity(row) == [row EXCEPT !.deleted_at = Never, !.last_login_at = Never]

\* C26: softDelete sets deleted_at of a record only if it is null, and of an
\* already soft-deleted record changes nothing; restore clears deleted_at
\* only if it is set, returning the record with deleted_at null, and fails
\* NotFound on a record that is not soft-deleted; whatever the order of
\* soft-deletes and restores, every record keeps its id and its other
\* fields.
C26_SoftDeleteRestore ==
  [][/\ \A p \in Procs :
          /\ (req[p].pc = "del_write" /\ req'[p].pc = "done") =>
               IF users[req[p].id].deleted_at = Never
               THEN \/ /\ req'[p].kind = "OK"
                       /\ users' = [users EXCEPT ![req[p].id].deleted_at = now]
                    \/ req'[p].kind = "Internal" /\ users' = users
               ELSE req'[p].kind # "OK" /\ users' = users
          /\ (req[p].pc = "restore" /\ req'[p].pc = "done") =>
               IF \E i \in RowsById(req[p].id) : users[i].deleted_at # Never
               THEN \/ /\ req'[p].kind = "OK"
                       /\ users' =
                            [users EXCEPT ![req[p].id].deleted_at = Never]
                       /\ req'[p].data = users'[req[p].id]
                    \/ req'[p].kind = "Internal" /\ users' = users
               ELSE /\ req'[p].kind \in {"NotFound", "Internal"}
                    /\ users' = users
     /\ Len(users') = Len(InitUsers)
     /\ \A i \in 1..Len(InitUsers) :
          Identity(users'[i]) = Identity(InitUsers[i])]_vars

\* a second soft-delete of user 2 was refused, and user 2 was then restored
C26_Witness ==
  /\ req["p1"].route = "users_restore" /\ req["p1"].id = 2
  /\ req["p1"].pc = "done" /\ req["p1"].kind = "OK"
  /\ req["p1"].data.deleted_at = Never
  /\ users[2] = InitUsers[2]
  /\ req["p2"].route = "users_delete" /\ req["p2"].id = 2
  /\ req["p2"].pc = "done" /\ req["p2"].kind = "Internal"

(***************************************************************************)
(* SpecLookup: one client logs in under the keys of both tenants with      *)
(* identifiers that spell an email or a username, in either case, and      *)
(* with identifiers that contain an underscore, while time passes.         *)
(***************************************************************************)
LookupRequests ==
  {Request("login", k, NoAuth, "", NoId, LoginBody(i, pw)) :
     k \in {"K1", "K2"},
     i \in {<<"a", "@">>, <<"A", "@">>, <<"a", "l">>, <<"a", "_">>,
            <<"_", "_">>, <<"b", "o">>},
     pw \in {"pw1", "pw2"}}

NextLookup ==
  \/ Tick
  \/ \E rq \in LookupRequests : ValidateApiKey("p1", rq, "ok")
  \/ ValidateApiKeyTouch("p1", "ok")
  \/ \E out \in UserDbOutcomes : LoginFind("p1", out)
  \/ UpdateGet("p1", "ok")
  \/ UpdateWrite("p1", "ok", "s1")

SpecLookup == Init /\ [][NextLookup]_vars

\* C27: the user a login finds is not soft-deleted, belongs to the tenant
\* of the key, and has an email or a username equal to the identifier
\* ignoring case.
C27_LookupExact ==
  [][\A p \in Procs :
       (LoginLooksUp(p) /\ req'[p].pc = "upd_get") =>
         LET row == users[req'[p].id]
         IN /\ row.deleted_at = Never
            /\ row.tenant_id = KeyTenant(p)
            /\ \/ EqIgnoreCase(row.email, req[p].body.identifier)
               \/ EqIgnoreCase(row.username, req[p].body.identifier)]_vars

(***************************************************************************)
(* SpecStoredHash: one client logs in as user 1, creates a user, changes   *)
(* the password of user 1 and updates user 2, its request bodies carrying  *)
(* passwords, a password_hash field, or both.                              *)
(***************************************************************************)
\* a password_hash a caller writes into a request body
RawHash == [salt |-> "raw", digest |-> <<"raw", "raw">>]

StoredHashRequests ==
  {Request("login", "K1", NoAuth, "", NoId, LoginBody(<<"a", "@">>, pw)) :
     pw \in {"pw1", "pw9"}}
  \cup {Request("change_password", "K1", NoAuth, "", NoId,
                PasswordBody(1, "pw1", "pw9"))}
  \cup {Request("users_post", "K1", BearerAuth(t), "", NoId,
                [UserBody(<<"k", "@">>, <<"j", "o">>)
                   EXCEPT !.password_hash = h]) :
          t \in tokens, h \in {NoHash, RawHash}}
  \cup {Request("users_patch", "K1", BearerAuth(t), "", 2,
                [NoBody EXCEPT !.password = pw, !.password_hash = h,
                               !.status = "active"]) :
          t \in tokens, pw \in {"", "pw9"}, h \in {NoHash, RawHash}}

NextStoredHash ==
  \/ \E rq \in StoredHashRequests : ValidateApiKey("p1", rq, "ok")
  \/ ValidateApiKeyTouch("p1", "ok")
  \/ LoginFind("p1", "ok")
  \/ ChangePasswordGet("p1", "ok")
  \/ CreateCheckEmail("p1", "ok")
  \/ CreateCheckUsername("p1", "ok")
  \/ \E salt \in Salts : CreateInsert("p1", "ok", salt)
  \/ UpdateGet("p1", "ok")
  \/ \E salt \in Salts : UpdateWrite("p1", "ok", salt)

SpecStoredHash == Init /\ [][NextStoredHash]_vars

\* the hash is one the hasher made of a password the request of p supplied
HashedFrom(hash, p) ==
  \E pw \in {req[p].body.password, req[p].body.new_password} \ {""},
     salt \in Salts :
    hash = BcryptHash(pw, salt)

\* C28: whenever a request stores a password_hash, in a new user or in place
\* of another, the stored value is the hasher's output for a password the
\* request supplied.
C28_HashFromHasher ==
  [][\A i \in 1..Len(users') :
       (i > Len(users) \/ users'[i].password_hash # users[i].password_hash)
         => \E p \in Procs :
              req[p].pc # req'[p].pc
              /\ HashedFrom(users'[i].password_hash, p)]_vars

(***************************************************************************)
(* Claims about concurrent requests and about scopes.                      *)
(***************************************************************************)
\* the verify-email request of p was answered with success
VerifiedBy(p) ==
  /\ req[p].route = "verify_email" /\ req[p].pc = "done"
  /\ req[p].kind = "OK"

\* C29: of the verify-email requests that carry one token, at most one is
\* answered with success.
C29_OneVerification ==
  \A p \in Procs, q \in Procs :
    (/\ VerifiedBy(p) /\ VerifiedBy(q)
     /\ req[p].body.token = req[q].body.token)
      => p = q

(***************************************************************************)
(* SpecScope: one client logs in as user 1 under the key of tenant T1 and  *)
(* presents the token with the keys of both tenants, while time passes.    *)
(***************************************************************************)
ScopeRequests ==
  {Request("login", "K1", NoAuth, "", NoId, LoginBody(<<"a", "@">>, "pw1"))}
  \cup {Request(route, k, BearerAuth(t), "", 2, NoBody) :
          route \in {"roles", "users_get"}, k \in {"K1", "K2"},
          t \in tokens}

NextScope ==
  \/ Tick
  \/ \E rq \in ScopeRequests : ValidateApiKey("p1", rq, "ok")
  \/ ValidateApiKeyTouch("p1", "ok")
  \/ LoginFind("p1", "ok")
  \/ UpdateGet("p1", "ok")
  \/ UpdateWrite("p1", "ok", "s1")
  \/ UsersGetById("p1", "ok")

SpecScope == Init /\ [][NextScope]_vars

\* C30: the handler of a route behind authenticate runs only if the
\* tenant_id claim of the token is the tenant of the API key of the request.
C30_TokenKeyTenant ==
  [][\A p \in Procs :
       (AtAuthenticate(p) /\ req'[p].ran)
         => req[p].auth.token.tenant_id = KeyTenant(p)]_vars

====
